---- MODULE Spec2Model ----
(***************************************************************************)
(* Model of src/parse.py: the reference resolver (parse_ref), the tweet    *)
(* table builder (parse_data), the edge builders (parse_retweets,          *)
(* parse_quotes, parse_mentions) and the batch aggregator                  *)
(* (read_aggregate_pickle with concat_and_pickle).                         *)
(*                                                                         *)
(* A Python call either returns a value or raises: a result is the record  *)
(* [exc, val], exc = "" for a normal return.  A pandas cell is either      *)
(* missing (NaN) or holds a value: [nan |-> TRUE] or [nan |-> FALSE, v].   *)
(*                                                                         *)
(* parse.py reads six global names that it neither imports nor defines     *)
(* (os, osp, json, time, logger, utils).  Whether such a name resolves is  *)
(* a property of the namespace the module runs in, not of the file: the    *)
(* set "bound" holds the names that resolve, and a read of any other one   *)
(* raises NameError at the line that reads it.                             *)
(***************************************************************************)
EXTENDS Integers, Sequences, FiniteSets, TLC

VARIABLES
    bound,        \* the free global names of parse.py that resolve
    \* ---- read_aggregate_pickle ----
    pc,           \* position of the run: start, load, trigger, flushed, done, raised
    nfiles,       \* len(files)
    agg_interval, \* the agg_interval argument
    i,            \* loop index of enumerate(files)
    all_tweets, all_users, all_media, all_ref,   \* the four accumulators
    not_loaded,   \* indices of the files recorded as not loaded
    outcome,      \* which handler the last file iteration ended in
    persisted,    \* the sink: batches written by to_pickle, in order
    failed,       \* batches whose to_pickle raised (warning of line 256)
    exc,          \* the exception that escaped the run, "" if none
    \* ---- calls of the pure functions ----
    call,         \* [fn, ...arguments] of the last call
    ret           \* its result

vars == <<bound, pc, nfiles, agg_interval, i, all_tweets, all_users, all_media,
          all_ref, not_loaded, outcome, persisted, failed, exc, call, ret>>

aggVars == <<pc, nfiles, agg_interval, i, all_tweets, all_users, all_media,
             all_ref, not_loaded, outcome, persisted, failed, exc>>

----------------------------------------------------------------------------
(* Bounds of the model *)

MaxFiles == 3
MaxInterval == 2
MaxRefs == 3
MaxMentions == 2
MaxTableRows == 2
MaxTweets == 2

----------------------------------------------------------------------------
(* class RType *)

RETWEET == 1
QUOTE == 2
REPLY == 3
MENTION == 4

FreeNames == {"os", "osp", "json", "time", "logger", "utils"}

Ok(v) == [exc |-> "", val |-> v]
Raise(e) == [exc |-> e, val |-> <<>>]

NaN == [nan |-> TRUE]
Cell(v) == [nan |-> FALSE, v |-> v]

EmptyDict == [x \in {} |-> x]

Ids == {"t1", "t2"}
Users == {"u1", "u2"}
RefTypes == {"replied_to", "quoted", "retweeted"}

SeqsUpTo(S, n) == UNION {[1..k -> S] : k \in 0..n}

----------------------------------------------------------------------------
(* parse_ref *)

RefDefault == [replied_to |-> "", quoted |-> "", retweeted |-> ""]

\* the index of the last entry of l whose type is ty
LastOfType(l, ty) ==
    CHOOSE k \in DOMAIN l :
        /\ l[k].type = ty
        /\ \A j \in DOMAIN l : l[j].type = ty => j <= k

\* DataFrame(t).set_index("type").T.reset_index(drop=True).to_dict("records")[0]:
\* one key per type, a repeated type keeps its last id
TypeToId(l) ==
    [ty \in {l[k].type : k \in DOMAIN l} |-> l[LastOfType(l, ty)].id]

\* mutant: the default record is not overlaid, the resolved mapping is returned alone
ParseRef_NoDefaults(t) ==
    IF t.nan THEN RefDefault
    ELSE IF t.v = <<>> THEN RefDefault
    ELSE TypeToId(t.v)

ParseRef(t) ==
    IF t.nan THEN RefDefault                 \* DataFrame(nan) raises: except branch
    ELSE IF t.v = <<>> THEN RefDefault       \* no "type" column: except branch
    ELSE TypeToId(t.v) @@ RefDefault         \* a.update(x[0])

----------------------------------------------------------------------------
(* parse_mentions *)

MentionEdge(tweet_id, author_id, m) ==
    [src_user_id |-> author_id, tar_user_id |-> m.id,
     tweet_id |-> tweet_id, rtype |-> MENTION]

\* mutant: source and target of the edge are exchanged
ParseMentions_Swapped(tweet_id, author_id, entities) ==
    IF "mentions" \in DOMAIN entities
    THEN [k \in DOMAIN entities.mentions |->
            [src_user_id |-> entities.mentions[k].id, tar_user_id |-> author_id,
             tweet_id |-> tweet_id, rtype |-> MENTION]]
    ELSE <<>>

ParseMentions(tweet_id, author_id, entities) ==
    IF "mentions" \in DOMAIN entities
    THEN [k \in DOMAIN entities.mentions |->
            MentionEdge(tweet_id, author_id, entities.mentions[k])]
    ELSE <<>>

----------------------------------------------------------------------------
(* parse_data *)

\* the order in which the fields of a tweet object appear
FieldOrder == <<"id", "author_id", "public_metrics", "referenced_tweets">>
MetricOrder == <<"retweet_count", "like_count">>
RefOrder == <<"replied_to", "quoted", "retweeted">>

Range(s) == {s[k] : k \in DOMAIN s}

\* pd.DataFrame.from_dict(data): a column per key that occurs in some dictionary,
\* a row per dictionary, NaN where a dictionary lacks the key
FromDict(data, order) ==
    LET keys == UNION {DOMAIN data[k] : k \in DOMAIN data}
        cols == SelectSeq(order, LAMBDA c : c \in keys)
    IN [cols |-> cols,
        rows |-> [k \in DOMAIN data |->
                    [c \in Range(cols) |->
                        IF c \in DOMAIN data[k] THEN Cell(data[k][c]) ELSE NaN]]]

\* pd.concat([...], axis=1) of two tables with the same number of rows
ConcatCols(a, b) ==
    [cols |-> a.cols \o b.cols,
     rows |-> [k \in DOMAIN a.rows |-> a.rows[k] @@ b.rows[k]]]

\* df["public_metrics"].apply(pd.Series), every cell of the column a dictionary
Metrics(df) ==
    FromDict([k \in DOMAIN df.rows |-> df.rows[k]["public_metrics"].v], MetricOrder)

\* pd.DataFrame.from_dict([parse_ref(t) for t in df["referenced_tweets"]])
RefFrame(df) ==
    FromDict([k \in DOMAIN df.rows |-> ParseRef(df.rows[k]["referenced_tweets"])],
             RefOrder)

ParseData(data) ==
    LET df == FromDict(data, FieldOrder) IN
    IF "public_metrics" \notin Range(df.cols)
    THEN Raise("KeyError")                               \* line 34, outside the try
    ELSE IF "referenced_tweets" \notin Range(df.cols)
         THEN Ok(df)                                     \* line 37 raises, line 40-43
         ELSE Ok(ConcatCols(ConcatCols(df, Metrics(df)), RefFrame(df)))

----------------------------------------------------------------------------
(* parse_retweets, parse_quotes *)

\* table.set_index("id")["author_id"].to_dict(): KeyError without the two columns,
\* a repeated id keeps the author of its last row
AuthorDict(table) ==
    IF ~({"id", "author_id"} \subseteq Range(table.cols))
    THEN Raise("KeyError")
    ELSE LET id(k) == table.rows[k]["id"].v
             ids == {id(k) : k \in DOMAIN table.rows}
             last(x) == CHOOSE k \in DOMAIN table.rows :
                            /\ id(k) = x
                            /\ \A j \in DOMAIN table.rows : id(j) = x => j <= k
         IN Ok([x \in ids |-> table.rows[last(x)]["author_id"].v])

\* utils.RType.<name>.value: NameError unless the global utils resolves
UtilsRType(value) ==
    IF "utils" \in bound THEN Ok(value) ELSE Raise("NameError")

Edge(src, tar, tweet_id, rtype) ==
    [src_user_id |-> src, tar_user_id |-> tar, tweet_id |-> tweet_id, rtype |-> rtype]

\* the two nested try blocks shared by parse_retweets and parse_quotes
ResolveEdge(tweet_id, author_id, target_id, tweet_df, referenced_df, rtype) ==
    LET tweet_dict == AuthorDict(tweet_df)
        ref_dict == AuthorDict(referenced_df)
        rt == UtilsRType(rtype)
    IN IF tweet_dict.exc # "" THEN Raise(tweet_dict.exc)
       ELSE IF ref_dict.exc # "" THEN Raise(ref_dict.exc)
       ELSE IF target_id \in DOMAIN ref_dict.val /\ rt.exc = ""
            THEN Ok(Edge(ref_dict.val[target_id], author_id, tweet_id, rt.val))
            ELSE IF target_id \in DOMAIN tweet_dict.val /\ rt.exc = ""
                 THEN Ok(Edge(tweet_dict.val[target_id], author_id, tweet_id, rt.val))
                 ELSE Ok(EmptyDict)

ParseRetweets(tweet_id, author_id, retweet_id, tweet_df, referenced_df) ==
    ResolveEdge(tweet_id, author_id, retweet_id, tweet_df, referenced_df, RETWEET)

ParseQuotes(tweet_id, author_id, quote_id, tweet_df, referenced_df) ==
    ResolveEdge(tweet_id, author_id, quote_id, tweet_df, referenced_df, QUOTE)

----------------------------------------------------------------------------
(* Arguments of the calls *)

RefEntries == [type : RefTypes, id : Ids]
RefLists == SeqsUpTo(RefEntries, MaxRefs)

\* a tweet's "entities": without a mentions key, or with a list of mentions
EntitiesInputs ==
    {[hashtags |-> <<>>]} \cup
    {[mentions |-> ms] : ms \in SeqsUpTo([id : Users], MaxMentions)}

\* tables of tweets as the edge builders receive them; the table built from
\* no tweet at all is pd.DataFrame(), which has no column
EdgeTables ==
    {FromDict(d, FieldOrder) : d \in SeqsUpTo([id : Ids, author_id : Users], MaxTableRows)}

PublicMetrics == [retweet_count |-> 3, like_count |-> 5]

TweetRefLists ==
    {<<>>,
     <<[type |-> "retweeted", id |-> "t1"]>>,
     <<[type |-> "quoted", id |-> "t2"], [type |-> "replied_to", id |-> "t1"]>>}

TweetsWithoutMetrics ==
    {[id |-> x, author_id |-> "u1"] : x \in Ids} \cup
    {[id |-> x, author_id |-> "u1", referenced_tweets |-> l] :
        x \in Ids, l \in TweetRefLists}

TweetsWithMetrics ==
    {t @@ [public_metrics |-> PublicMetrics] : t \in TweetsWithoutMetrics}

\* response["data"]: public_metrics is a requested field, present in every
\* tweet of a response or in none
DataInputs ==
    SeqsUpTo(TweetsWithMetrics, MaxTweets) \cup SeqsUpTo(TweetsWithoutMetrics, MaxTweets)

NoCall == [fn |-> "none"]

----------------------------------------------------------------------------
(* Calls of the pure functions: one call per behaviour *)

CallParseRef ==
    /\ call = NoCall
    /\ \E t \in {NaN} \cup {Cell(l) : l \in RefLists} :
        /\ call' = [fn |-> "parse_ref", t |-> t]
        /\ ret' = Ok(ParseRef(t))
    /\ UNCHANGED <<bound, aggVars>>

CallParseMentions ==
    /\ call = NoCall
    /\ \E tweet_id \in Ids, author_id \in Users, entities \in EntitiesInputs :
        /\ call' = [fn |-> "parse_mentions", tweet_id |-> tweet_id,
                    author_id |-> author_id, entities |-> entities]
        /\ ret' = Ok(ParseMentions(tweet_id, author_id, entities))
    /\ UNCHANGED <<bound, aggVars>>

CallParseData ==
    /\ call = NoCall
    /\ \E data \in DataInputs :
        /\ call' = [fn |-> "parse_data", data |-> data]
        /\ ret' = ParseData(data)
    /\ UNCHANGED <<bound, aggVars>>

CallParseRetweets ==
    /\ call = NoCall
    /\ \E author_id \in Users, retweet_id \in Ids,
          tweet_df \in EdgeTables, referenced_df \in EdgeTables :
        /\ call' = [fn |-> "parse_retweets", tweet_id |-> "t9", author_id |-> author_id,
                    target_id |-> retweet_id, tweet_df |-> tweet_df,
                    referenced_df |-> referenced_df]
        /\ ret' = ParseRetweets("t9", author_id, retweet_id, tweet_df, referenced_df)
    /\ UNCHANGED <<bound, aggVars>>

CallParseQuotes ==
    /\ call = NoCall
    /\ \E author_id \in Users, quote_id \in Ids,
          tweet_df \in EdgeTables, referenced_df \in EdgeTables :
        /\ call' = [fn |-> "parse_quotes", tweet_id |-> "t9", author_id |-> author_id,
                    target_id |-> quote_id, tweet_df |-> tweet_df,
                    referenced_df |-> referenced_df]
        /\ ret' = ParseQuotes("t9", author_id, quote_id, tweet_df, referenced_df)
    /\ UNCHANGED <<bound, aggVars>>

----------------------------------------------------------------------------
(* read_aggregate_pickle *)

Kinds == <<"tweets", "users", "media", "ref">>

\* what a cached file can hold: nothing json.load accepts, or a response
\* without "data", with tweets that lack public_metrics, or with complete tweets
Unreadable == [readable |-> FALSE]
Loaded(res) == [readable |-> TRUE, json |-> res]

Responses ==
    {[includes |-> [users |-> <<[id |-> "u1"]>>]],
     [data |-> <<[id |-> "t1", author_id |-> "u1"]>>],
     [data |-> <<[id |-> "t1", author_id |-> "u1", public_metrics |-> PublicMetrics]>>],
     [data |-> <<[id |-> "t2", author_id |-> "u2", public_metrics |-> PublicMetrics,
                  referenced_tweets |-> <<[type |-> "retweeted", id |-> "t1"]>>]>>,
      includes |-> [users |-> <<[id |-> "u1"]>>,
                    tweets |-> <<[id |-> "t1", author_id |-> "u1",
                                  public_metrics |-> PublicMetrics]>>]]}

FileInputs == {Unreadable} \cup {Loaded(res) : res \in Responses}

\* parse_users(res) and parse_media(res) as the loop calls them: both functions
\* are declared (response, logger, file=None), so the one-argument call raises
ParseUsersCall(res) == Raise("TypeError")
ParseMediaCall(res) == Raise("TypeError")

\* an accumulated table remembers the index of the file it was extracted from
Entry(idx, df) == [src |-> idx, df |-> df]

\* lines 290-296: the referenced tweets of a response, absent ones only logged
ExtractRef(res, idx, acc) ==
    IF "includes" \notin DOMAIN res \/ "tweets" \notin DOMAIN res.includes
    THEN [acc |-> acc, exc |-> ""]
    ELSE LET ref == ParseData(res.includes.tweets) IN
         IF ref.exc = "KeyError" THEN [acc |-> acc, exc |-> ""]
         ELSE IF ref.exc # "" THEN [acc |-> acc, exc |-> ref.exc]
         ELSE [acc |-> [acc EXCEPT !.ref = Append(@, Entry(idx, ref.val))], exc |-> ""]

\* lines 284-296: the extraction steps in order, each append made as soon as its
\* table is built; exc is what the handler of line 297 catches, "" if nothing
Extract(res, idx, acc) ==
    IF "data" \notin DOMAIN res THEN [acc |-> acc, exc |-> "KeyError"]
    ELSE LET tweets == ParseData(res.data) IN
         IF tweets.exc # "" THEN [acc |-> acc, exc |-> tweets.exc]
         ELSE LET acc1 == [acc EXCEPT !.tweets = Append(@, Entry(idx, tweets.val))]
                  users == ParseUsersCall(res)
              IN IF users.exc # "" THEN [acc |-> acc1, exc |-> users.exc]
                 ELSE LET acc2 == [acc1 EXCEPT !.users = Append(@, Entry(idx, users.val))]
                          media == ParseMediaCall(res)
                      IN IF media.exc # "" THEN [acc |-> acc2, exc |-> media.exc]
                         ELSE ExtractRef(res, idx,
                                  [acc2 EXCEPT !.media = Append(@, Entry(idx, media.val))])

Accumulators ==
    [tweets |-> all_tweets, users |-> all_users, media |-> all_media, ref |-> all_ref]

\* lines 272-278
Start ==
    /\ pc = "start"
    /\ IF "os" \notin bound \/ "time" \notin bound
       THEN pc' = "raised" /\ exc' = "NameError"
       ELSE /\ pc' = IF nfiles = 0 THEN "done" ELSE "load"
            /\ exc' = ""
    /\ UNCHANGED <<bound, nfiles, agg_interval, i, all_tweets, all_users, all_media,
                   all_ref, not_loaded, outcome, persisted, failed, call, ret>>

\* lines 280-304: one file is loaded and its tables are extracted
ProcessFile ==
    /\ pc = "load"
    /\ \E file \in FileInputs :
        IF "osp" \notin bound
        THEN \* line 281 raises NameError, and so does line 303 in its handler
             /\ pc' = "raised" /\ exc' = "NameError"
             /\ outcome' = "not_loaded"
             /\ UNCHANGED <<all_tweets, all_users, all_media, all_ref, not_loaded>>
        ELSE IF ~file.readable \/ "json" \notin bound
        THEN /\ not_loaded' = Append(not_loaded, i)
             /\ outcome' = "not_loaded"
             /\ pc' = "trigger"
             /\ UNCHANGED <<all_tweets, all_users, all_media, all_ref, exc>>
        ELSE LET r == Extract(file.json, i, Accumulators) IN
             /\ all_tweets' = r.acc.tweets
             /\ all_users' = r.acc.users
             /\ all_media' = r.acc.media
             /\ all_ref' = r.acc.ref
             /\ outcome' = IF r.exc = "" THEN "parsed" ELSE "parse_failed"
             /\ pc' = "trigger"
             /\ UNCHANGED <<not_loaded, exc>>
    /\ UNCHANGED <<bound, nfiles, agg_interval, i, persisted, failed, call, ret>>

\* the global logger read by concat_and_pickle: NameError unless it resolves
LoggerCall == IF "logger" \in bound THEN "" ELSE "NameError"

Batch(kind, idx, df_list) ==
    [kind |-> kind, index |-> idx, tables |-> [k \in DOMAIN df_list |-> df_list[k].src]]

\* concat_and_pickle(df_list, kind, <path of index idx>, protocol) entered in state
\* st = [persisted, failed, exc]; pickle_ok is whether to_pickle succeeds
ConcatAndPickle(df_list, kind, idx, pickle_ok, st) ==
    IF st.exc # "" THEN st
    ELSE IF df_list = <<>>
    THEN [st EXCEPT !.exc = LoggerCall]                      \* lines 244-246
    ELSE IF pickle_ok
    THEN [st EXCEPT !.persisted = Append(@, Batch(kind, idx, df_list)),
                    !.exc = LoggerCall]                      \* lines 253-256
    ELSE [st EXCEPT !.failed = Append(@, Batch(kind, idx, df_list)),
                    !.exc = LoggerCall]                      \* lines 255-256

FlushTrigger == (i % agg_interval = 0 /\ i > 0) \/ (i = nfiles - 1)

\* lines 306-328 with the trigger true: the four batches are flushed in order
Flush ==
    /\ pc = "trigger"
    /\ FlushTrigger
    /\ \E ok \in [{"tweets", "users", "media", "ref"} -> BOOLEAN] :
        \* time.time() of line 307 and osp.join of line 311 read globals
        LET s0 == [persisted |-> persisted, failed |-> failed,
                   exc |-> IF {"time", "osp"} \subseteq bound THEN "" ELSE "NameError"]
            s1 == ConcatAndPickle(all_tweets, "tweets", i, ok["tweets"], s0)
            s2 == ConcatAndPickle(all_users, "users", i, ok["users"], s1)
            s3 == ConcatAndPickle(all_media, "media", i, ok["media"], s2)
            s4 == ConcatAndPickle(all_ref, "ref", i, ok["ref"], s3)
        IN /\ persisted' = s4.persisted
           /\ failed' = s4.failed
           /\ exc' = s4.exc
           /\ pc' = IF s4.exc = "" THEN "flushed" ELSE "raised"
    /\ UNCHANGED <<bound, nfiles, agg_interval, i, all_tweets, all_users, all_media,
                   all_ref, not_loaded, outcome, call, ret>>

LoopStep ==
    /\ i' = i + 1
    /\ pc' = IF i + 1 < nfiles THEN "load" ELSE "done"
    /\ UNCHANGED <<bound, nfiles, agg_interval, all_tweets, all_users, all_media,
                   all_ref, not_loaded, outcome, persisted, failed, exc, call, ret>>

\* line 306 with the trigger false: on to the next file
NoFlush ==
    /\ pc = "trigger"
    /\ ~FlushTrigger
    /\ LoopStep

\* the end of the loop body after a flush
AfterFlush ==
    /\ pc = "flushed"
    /\ LoopStep

InitAgg ==
    /\ pc = "start"
    /\ nfiles \in 0..MaxFiles
    /\ agg_interval \in 1..MaxInterval
    /\ i = 0
    /\ all_tweets = <<>> /\ all_users = <<>> /\ all_media = <<>> /\ all_ref = <<>>
    /\ not_loaded = <<>>
    /\ outcome = "none"
    /\ persisted = <<>>
    /\ failed = <<>>
    /\ exc = ""
    /\ bound \in SUBSET FreeNames
    /\ call = NoCall
    /\ ret = Ok(<<>>)

InitParse ==
    /\ bound \in SUBSET {"utils"}
    /\ pc = "idle"
    /\ nfiles = 0
    /\ agg_interval = 1
    /\ i = 0
    /\ all_tweets = <<>> /\ all_users = <<>> /\ all_media = <<>> /\ all_ref = <<>>
    /\ not_loaded = <<>>
    /\ outcome = "none"
    /\ persisted = <<>>
    /\ failed = <<>>
    /\ exc = ""
    /\ call = NoCall
    /\ ret = Ok(<<>>)

NextParse ==
    \/ CallParseRef
    \/ CallParseMentions
    \/ CallParseData
    \/ CallParseRetweets
    \/ CallParseQuotes

SpecParse == InitParse /\ [][NextParse]_vars

Init == InitAgg

Next ==
    \/ Start
    \/ ProcessFile
    \/ Flush
    \/ NoFlush
    \/ AfterFlush

Spec == Init /\ [][Next]_vars

----------------------------------------------------------------------------
(* Properties of read_aggregate_pickle, checked under Spec *)

Empty(acc) == acc = <<>>

TriggerAt(f) == (f % agg_interval = 0 /\ f > 0) \/ (f = nfiles - 1)

PersistedOf(kind) == {k \in DOMAIN persisted : persisted[k].kind = kind}

\* C1: once the flush for an index has completed, the four accumulators are empty,
\* and no batch persisted at a later index holds a table appended at or before
\* an index at which a flush was made.
C1_FlushResetsAccumulators ==
    /\ pc = "flushed" =>
         Empty(all_tweets) /\ Empty(all_users) /\ Empty(all_media) /\ Empty(all_ref)
    /\ \A k \in DOMAIN persisted :
         \A f \in 0..(persisted[k].index - 1) :
            TriggerAt(f) => \A t \in Range(persisted[k].tables) : t > f

\* C3: a file that loads but whose extraction fails leaves the four accumulators
\* as they were before its iteration.
C3_FailedExtractionContributesNothing ==
    [][(pc = "load" /\ pc' = "trigger" /\ outcome' = "parse_failed") =>
          /\ all_tweets' = all_tweets
          /\ all_users' = all_users
          /\ all_media' = all_media
          /\ all_ref' = all_ref]_vars

\* C4: once the file list is built and the loop of read_aggregate_pickle is
\* entered, no exception escapes the run, whatever fails in it.
C4_RunNeverAborted ==
    {"os", "time"} \subseteq bound => (pc # "raised" /\ exc = "")

\* C8: the tables of a batch whose persistence failed are in no batch of the same
\* kind persisted at a later flush.
C8_FailedBatchNotRetried ==
    \A f \in DOMAIN failed : \A k \in DOMAIN persisted :
        (persisted[k].kind = failed[f].kind /\ persisted[k].index > failed[f].index)
            => Range(persisted[k].tables) \cap Range(failed[f].tables) = {}

\* C9: with agg_interval = 1, a finished run over two files whose tweets were both
\* extracted, with no persistence failure, has persisted two tweets batches.
C9_TwoFilesTwoTweetBatches ==
    (pc = "done" /\ agg_interval = 1 /\ nfiles = 2 /\ Len(all_tweets) = 2
        /\ failed = <<>>)
        => Cardinality(PersistedOf("tweets")) = 2

----------------------------------------------------------------------------
(* Properties of the pure functions, checked under SpecParse *)

IsEdgeCall == call.fn \in {"parse_retweets", "parse_quotes"}

HasColumns(table) == {"id", "author_id"} \subseteq Range(table.cols)

IdsOf(table) == {table.rows[k]["id"].v : k \in DOMAIN table.rows}

\* the call returned an edge from an author the table gives for the target id
EdgeFrom(table, rtype) ==
    /\ ret.exc = ""
    /\ DOMAIN ret.val = {"src_user_id", "tar_user_id", "tweet_id", "rtype"}
    /\ \E k \in DOMAIN table.rows :
          /\ table.rows[k]["id"].v = call.target_id
          /\ table.rows[k]["author_id"].v = ret.val.src_user_id
    /\ ret.val.tar_user_id = call.author_id
    /\ ret.val.tweet_id = call.tweet_id
    /\ ret.val.rtype = rtype

\* C2: parse_retweets and parse_quotes return the edge from the referenced-tweet
\* table's author when the target id is in that table, else from the main table's
\* author when it is there, with rtype 1 (retweet) respectively 2 (quote).
C2_EdgeFromResolvedAuthor ==
    (IsEdgeCall /\ HasColumns(call.tweet_df) /\ HasColumns(call.referenced_df)) =>
        LET rtype == IF call.fn = "parse_retweets" THEN 1 ELSE 2 IN
        /\ call.target_id \in IdsOf(call.referenced_df)
              => EdgeFrom(call.referenced_df, rtype)
        /\ (call.target_id \notin IdsOf(call.referenced_df)
              /\ call.target_id \in IdsOf(call.tweet_df))
              => EdgeFrom(call.tweet_df, rtype)

\* C5: when the target id is an id of neither table, parse_retweets and
\* parse_quotes return the empty record and raise nothing.
C5_NoEdgeWhenTargetUnknown ==
    (IsEdgeCall /\ call.target_id \notin IdsOf(call.referenced_df)
                /\ call.target_id \notin IdsOf(call.tweet_df))
        => (ret.exc = "" /\ DOMAIN ret.val = {})

AtMostOnePerType(l) ==
    \A j, k \in DOMAIN l : l[j].type = l[k].type => j = k

\* C6: for a reference list with at most one entry per type, parse_ref returns
\* exactly the fields replied_to, quoted and retweeted, the id of each entry in
\* the field of its type and the empty string in every other field.
C6_ParseRefOneEntryPerType ==
    (call.fn = "parse_ref" /\ ~call.t.nan /\ AtMostOnePerType(call.t.v)) =>
        LET l == call.t.v IN
        /\ ret.exc = ""
        /\ DOMAIN ret.val = {"replied_to", "quoted", "retweeted"}
        /\ \A k \in DOMAIN l : ret.val[l[k].type] = l[k].id
        /\ \A ty \in {"replied_to", "quoted", "retweeted"} :
              (\A k \in DOMAIN l : l[k].type # ty) => ret.val[ty] = ""

\* a list of two entries of different types was resolved: two ids, one empty field
C6_Witness ==
    /\ call.fn = "parse_ref"
    /\ ~call.t.nan
    /\ Len(call.t.v) = 2
    /\ call.t.v[1].type = "quoted" /\ call.t.v[2].type = "replied_to"
    /\ ret.val.quoted = call.t.v[1].id
    /\ ret.val.replied_to = call.t.v[2].id
    /\ ret.val.retweeted = ""

\* C7: parse_mentions returns one edge per entry of entities["mentions"], in list
\* order, from the author to the mentioned id with rtype 4 (mention), and the
\* empty sequence when entities has no mentions key.
C7_OneEdgePerMention ==
    call.fn = "parse_mentions" =>
        /\ ret.exc = ""
        /\ IF "mentions" \in DOMAIN call.entities
           THEN /\ Len(ret.val) = Len(call.entities.mentions)
                /\ \A k \in DOMAIN call.entities.mentions :
                      ret.val[k] = [src_user_id |-> call.author_id,
                                    tar_user_id |-> call.entities.mentions[k].id,
                                    tweet_id |-> call.tweet_id,
                                    rtype |-> 4]
           ELSE Len(ret.val) = 0

\* two different users were mentioned by a third party: two edges came back
C7_Witness ==
    /\ call.fn = "parse_mentions"
    /\ "mentions" \in DOMAIN call.entities
    /\ Len(call.entities.mentions) = 2
    /\ call.entities.mentions[1].id # call.entities.mentions[2].id
    /\ Len(ret.val) = 2
    /\ ret.val[2].tar_user_id = call.entities.mentions[2].id
    /\ ret.val[2].src_user_id # ret.val[2].tar_user_id

\* C10: for a collection without any referenced_tweets field, parse_data returns
\* the original fields together with the expanded public-metrics columns, and no
\* reference column.
C10_MetricsKeptWithoutReferences ==
    (call.fn = "parse_data" /\ call.data # <<>>
        /\ \A k \in DOMAIN call.data :
              /\ "public_metrics" \in DOMAIN call.data[k]
              /\ "referenced_tweets" \notin DOMAIN call.data[k])
        => /\ ret.exc = ""
           /\ Range(ret.val.cols) =
                 {"id", "author_id", "public_metrics", "retweet_count", "like_count"}

====
